---- MODULE Spec2Model ----
(***************************************************************************)
(* The candidate ranking engine of backend/services/ranking_system.py:     *)
(* the five factor scorers, the weighted combiner and rank_candidates,     *)
(* and the handlers of backend/app.py that store rows and call the engine. *)
(*                                                                         *)
(* Representation.                                                         *)
(*  - A Python str is a sequence of one-character strings for the text     *)
(*    columns (skills, experience, ...) and a sequence of JSON lexemes for *)
(*    the two trait columns; None is the one-element sequence None, whose  *)
(*    element occurs in no alphabet.                                       *)
(*  - A float score is held in fixed point, in units of 1/SCALE.  SCALE is *)
(*    a multiple of every list length the bounds allow, so the quotients   *)
(*    match_count / len are exact; math.sqrt is rounded down to the unit.  *)
(*    Trait values are held in tenths.  A product of two floats (a score   *)
(*    times a weight) is held unrounded, in units of 1/(SCALE * SCALE): a  *)
(*    composite score is in that unit.                                     *)
(*  - A call that raises returns Raise(exception) in place of a value.     *)
(***************************************************************************)
EXTENDS Integers, Sequences, FiniteSets, TLC

VARIABLES
    self,          \* the RankingSystem instance: its five weight attributes
    candidates,    \* the candidate list handed to the engine
    job_profile,   \* the job record handed to the engine
    returned,      \* what the calls made so far returned, latest last (SpecWeb: the latest)
    frames,        \* the frame of each call of rank_candidates in progress, by thread
    db             \* the tables of the web application: Candidate rows and Job rows

vars == <<self, candidates, job_profile, returned, frames, db>>

----------------------------------------------------------------------------
(* Bounds *)

MaxLen == 3
MaxTraits == 6
MaxCandidates == 3
MaxCalls == 2

----------------------------------------------------------------------------
(* Numbers *)

SCALE == 60 * 100
HALF == SCALE \div 2
ONE == SCALE

\* the float literal n/10
Tenths(n) == (n * SCALE) \div 10

\* math.sqrt of a non-negative fixed-point number whose unit is 1/(SCALE * SCALE),
\* in units of 1/SCALE: the largest r with r * r <= x
RECURSIVE SqrtBetween(_, _, _)
SqrtBetween(x, lo, hi) ==
    IF lo = hi THEN lo
    ELSE LET mid == (lo + hi + 1) \div 2
         IN  IF mid * mid <= x THEN SqrtBetween(x, mid, hi) ELSE SqrtBetween(x, lo, mid - 1)

math_sqrt(x) == SqrtBetween(x, 0, 7 * SCALE)

----------------------------------------------------------------------------
(* Python str and list operations used by the scorers *)

None == <<"None">>

\* `not x` for a str-or-None column value
Falsy(x) == x = None \/ x = <<>>

LowerChar(c) ==
    CASE c = "A" -> "a"
      [] c = "B" -> "b"
      [] OTHER -> c

lower(s) == [i \in 1..Len(s) |-> LowerChar(s[i])]

IsSpace(c) == c = " "

RECURSIVE lstrip(_)
lstrip(s) ==
    IF s # <<>> /\ IsSpace(Head(s)) THEN lstrip(Tail(s)) ELSE s

RECURSIVE rstrip(_)
rstrip(s) ==
    IF s # <<>> /\ IsSpace(s[Len(s)]) THEN rstrip(SubSeq(s, 1, Len(s) - 1)) ELSE s

strip(s) == rstrip(lstrip(s))

\* s.split(sep): every occurrence of sep cuts; n separators give n + 1 parts
RECURSIVE split_sep(_, _)
split_sep(s, sep) ==
    IF \E i \in 1..Len(s) : s[i] = sep
    THEN LET i == CHOOSE k \in 1..Len(s) : s[k] = sep /\ \A m \in 1..(k - 1) : s[m] # sep
         IN  <<SubSeq(s, 1, i - 1)>> \o split_sep(SubSeq(s, i + 1, Len(s)), sep)
    ELSE <<s>>

\* s.split(): cut at runs of whitespace, no empty part
RECURSIVE split_ws(_)
split_ws(s) ==
    LET t == lstrip(s) IN
    IF t = <<>> THEN <<>>
    ELSE IF \E i \in 1..Len(t) : IsSpace(t[i])
    THEN LET i == CHOOSE k \in 1..Len(t) :
                     IsSpace(t[k]) /\ \A m \in 1..(k - 1) : ~IsSpace(t[m])
         IN  <<SubSeq(t, 1, i - 1)>> \o split_ws(SubSeq(t, i + 1, Len(t)))
    ELSE <<t>>

\* `x in a_list`
InList(x, list) == \E i \in 1..Len(list) : list[i] = x

\* sub is one of the whitespace-separated tokens of text
InTokens(sub, text) == InList(sub, split_ws(text))

\* `sub in text` for two str
InStr(sub, text) ==
    \E i \in 0..(Len(text) - Len(sub)) : SubSeq(text, i + 1, i + Len(sub)) = sub

\* a / b of two ints as a float, b # 0
Div(a, b) == (a * SCALE) \div b

----------------------------------------------------------------------------
(* The four text scorers *)

\* the items without the strip
CommaItemsUnstripped(s) ==
    LET parts == split_sep(s, ",") IN [i \in 1..Len(parts) |-> lower(parts[i])]

CommaItems(s) ==
    LET parts == split_sep(s, ",") IN [i \in 1..Len(parts) |-> lower(strip(parts[i]))]

_calculate_skill_score(candidate_obj, job) ==
    IF Falsy(job.required_skills) \/ Falsy(candidate_obj.skills) THEN HALF
    ELSE LET required_skills == CommaItems(job.required_skills)
             candidate_skills == CommaItems(candidate_obj.skills)
             match_count == Cardinality({i \in 1..Len(required_skills) :
                                          InList(required_skills[i], candidate_skills)})
         IN  IF required_skills = <<>> THEN HALF
             ELSE Div(match_count, Len(required_skills))

\* the scorer with a missing narrative counted as no match
ExperienceScoreZeroWhenMissing(candidate_obj, job) ==
    IF Falsy(job.required_experience) THEN HALF
    ELSE IF Falsy(candidate_obj.experience) THEN 0
    ELSE LET required_keywords == split_ws(lower(job.required_experience))
             candidate_experience_text == lower(candidate_obj.experience)
             match_count == Cardinality({i \in 1..Len(required_keywords) :
                                          InStr(required_keywords[i], candidate_experience_text)})
         IN  IF required_keywords # <<>> THEN Div(match_count, Len(required_keywords))
             ELSE HALF

_calculate_experience_score(candidate_obj, job) ==
    IF Falsy(job.required_experience) \/ Falsy(candidate_obj.experience) THEN HALF
    ELSE LET required_keywords == split_ws(lower(job.required_experience))
             candidate_experience_text == lower(candidate_obj.experience)
             match_count == Cardinality({i \in 1..Len(required_keywords) :
                                          InStr(required_keywords[i], candidate_experience_text)})
         IN  IF required_keywords # <<>> THEN Div(match_count, Len(required_keywords))
             ELSE HALF

_calculate_education_score(candidate_obj, job) ==
    IF Falsy(job.required_education) \/ Falsy(candidate_obj.education) THEN HALF
    ELSE LET required_keywords == split_ws(lower(job.required_education))
             candidate_education_text == lower(candidate_obj.education)
             match_count == Cardinality({i \in 1..Len(required_keywords) :
                                          InStr(required_keywords[i], candidate_education_text)})
         IN  IF required_keywords # <<>> THEN Div(match_count, Len(required_keywords))
             ELSE HALF

_calculate_certification_score(candidate_obj, job) ==
    IF Falsy(job.required_certifications) \/ Falsy(candidate_obj.certifications) THEN HALF
    ELSE LET required_certs == CommaItems(job.required_certifications)
             candidate_certs == CommaItems(candidate_obj.certifications)
             match_count == Cardinality({i \in 1..Len(required_certs) :
                                          InList(required_certs[i], candidate_certs)})
         IN  IF required_certs = <<>> THEN HALF
             ELSE Div(match_count, Len(required_certs))

----------------------------------------------------------------------------
(* json.loads and json.dumps over JSON lexemes *)

\* the number lexemes and their values, in tenths: floats as json.dumps writes
\* them, and the ints 0 and 1
FloatLit ==
    ("0.0" :> 0) @@ ("0.2" :> 2) @@ ("0.4" :> 4) @@ ("0.5" :> 5) @@ ("0.7" :> 7) @@ ("0.8" :> 8)
        @@ ("1.0" :> 10)
IntLit == ("0" :> 0) @@ ("1" :> 10)
NumberLit == FloatLit @@ IntLit

\* the trait names; the first five are the Big Five
TraitNames ==
    <<"openness", "conscientiousness", "extraversion", "agreeableness", "neuroticism",
      "leadership", "creativity", "resilience">>

\* the string lexemes (a quoted string, written without its quotes)
StringLit == {TraitNames[i] : i \in 1..Len(TraitNames)} \cup {"high"}

\* JSON values as Python objects
JNum(n) == [t |-> "num", n |-> n]
JStr(s) == [t |-> "str", s |-> s]
JNull == [t |-> "null"]
JBool(b) == [t |-> "bool", b |-> b]
JList(items) == [t |-> "list", items |-> items]
JDict(d) == [t |-> "dict", d |-> d]
EmptyDict == JDict([k \in {} |-> JNull])

Raise(e) == [ok |-> FALSE, exc |-> e]
Return(v) == [ok |-> TRUE, v |-> v]

ParsedTo(v, next) == [ok |-> TRUE, v |-> v, next |-> next]
ParseError == [ok |-> FALSE]

\* d[k] = v on a dict held as a function
DictSet(d, k, v) == [x \in (DOMAIN d) \cup {k} |-> IF x = k THEN v ELSE d[x]]

RECURSIVE ParseValue(_, _)
RECURSIVE ParseElements(_, _, _)
RECURSIVE ParseMembers(_, _, _)

ParseValue(s, i) ==
    IF i > Len(s) THEN ParseError
    ELSE LET tok == s[i] IN
         CASE tok \in DOMAIN NumberLit -> ParsedTo(JNum(NumberLit[tok]), i + 1)
           [] tok \in StringLit -> ParsedTo(JStr(tok), i + 1)
           [] tok = "null" -> ParsedTo(JNull, i + 1)
           [] tok = "true" -> ParsedTo(JBool(TRUE), i + 1)
           [] tok = "false" -> ParsedTo(JBool(FALSE), i + 1)
           [] tok = "[" ->
                IF i + 1 <= Len(s) /\ s[i + 1] = "]" THEN ParsedTo(JList(<<>>), i + 2)
                ELSE ParseElements(s, i + 1, <<>>)
           [] tok = "{" ->
                IF i + 1 <= Len(s) /\ s[i + 1] = "}" THEN ParsedTo(EmptyDict, i + 2)
                ELSE ParseMembers(s, i + 1, EmptyDict.d)
           [] OTHER -> ParseError

\* the elements of an array after "[" or ",", up to and including "]"
ParseElements(s, i, acc) ==
    LET r == ParseValue(s, i) IN
    IF ~r.ok \/ r.next > Len(s) THEN ParseError
    ELSE IF s[r.next] = "," THEN ParseElements(s, r.next + 1, Append(acc, r.v))
    ELSE IF s[r.next] = "]" THEN ParsedTo(JList(Append(acc, r.v)), r.next + 1)
    ELSE ParseError

\* the members of an object after "{" or ",", up to and including "}";
\* a repeated key keeps its last value
ParseMembers(s, i, acc) ==
    IF i + 1 > Len(s) \/ s[i] \notin StringLit \/ s[i + 1] # ":" THEN ParseError
    ELSE LET r == ParseValue(s, i + 2) IN
         IF ~r.ok \/ r.next > Len(s) THEN ParseError
         ELSE IF s[r.next] = "," THEN ParseMembers(s, r.next + 1, DictSet(acc, s[i], r.v))
         ELSE IF s[r.next] = "}" THEN ParsedTo(JDict(DictSet(acc, s[i], r.v)), r.next + 1)
         ELSE ParseError

\* json.loads(s): the value, or JSONDecodeError (a ValueError)
json_loads(s) ==
    LET r == ParseValue(s, 1) IN
    IF r.ok /\ r.next = Len(s) + 1 THEN Return(r.v) ELSE Raise("JSONDecodeError")

\* json.dumps of a dict of floats, given as a sequence of <<key, tenths>> pairs in
\* the dict's insertion order
NumberLexeme(n) == CHOOSE tok \in DOMAIN FloatLit : FloatLit[tok] = n

RECURSIVE DumpItems(_)
DumpItems(items) ==
    IF items = <<>> THEN <<>>
    ELSE <<items[1][1], ":", NumberLexeme(items[1][2])>>
         \o (IF Len(items) > 1 THEN <<",">> ELSE <<>>) \o DumpItems(Tail(items))

json_dumps(items) == <<"{">> \o DumpItems(items) \o <<"}">>

----------------------------------------------------------------------------
(* The personality scorer *)

\* bool(v) of a parsed JSON value
Truthy(v) ==
    CASE v.t = "num" -> v.n # 0
      [] v.t = "str" -> TRUE
      [] v.t = "null" -> FALSE
      [] v.t = "bool" -> v.b
      [] v.t = "list" -> v.items # <<>>
      [] v.t = "dict" -> DOMAIN v.d # {}

\* int, float and bool take part in arithmetic; any other operand of `-` is a TypeError
IsNumber(v) == v.t \in {"num", "bool"}

\* the float value of a number
Float(v) == IF v.t = "num" THEN Tenths(v.n) ELSE IF v.b THEN ONE ELSE 0

\* get with 0 as the default
DictGetDefaultZero(d, key) == IF key \in DOMAIN d THEN d[key] ELSE JNum(0)

\* a_dict.get(key, 0.5)
DictGet(d, key) == IF key \in DOMAIN d THEN d[key] ELSE JNum(5)

\* distance after the loop over required_traits: the sum of
\* (required_value - candidate_value) ** 2, unit 1/(SCALE * SCALE)
RECURSIVE SquaredDistance(_, _, _)
SquaredDistance(traits, required, candidate) ==
    IF traits = {} THEN 0
    ELSE LET trait == CHOOSE k \in traits : TRUE
             required_value == Float(DictGet(required, trait))
             candidate_value == Float(DictGet(candidate, trait))
         IN  (required_value - candidate_value) * (required_value - candidate_value)
             + SquaredDistance(traits \ {trait}, required, candidate)

\* lines 129-143 with max_distance taken from the number of required traits
SimilarityByTraitCount(required_traits, candidate_traits) ==
    IF required_traits.t \in {"num", "bool"} THEN Raise("TypeError")
    ELSE IF required_traits.t \in {"list", "str"} THEN Raise("AttributeError")
    ELSE IF candidate_traits.t # "dict" THEN Raise("AttributeError")
    ELSE IF \E trait \in DOMAIN required_traits.d :
                ~IsNumber(required_traits.d[trait])
                \/ ~IsNumber(DictGet(candidate_traits.d, trait))
    THEN Raise("TypeError")
    ELSE LET distance == math_sqrt(SquaredDistance(DOMAIN required_traits.d,
                                                   required_traits.d, candidate_traits.d))
             max_distance ==
                 math_sqrt(Cardinality(DOMAIN required_traits.d) * SCALE * SCALE)
         IN  Return(ONE - (distance * SCALE) \div max_distance)

\* lines 129-143 with the result held to [0, 1]
SimilarityClamped(required_traits, candidate_traits) ==
    IF required_traits.t \in {"num", "bool"} THEN Raise("TypeError")
    ELSE IF required_traits.t \in {"list", "str"} THEN Raise("AttributeError")
    ELSE IF candidate_traits.t # "dict" THEN Raise("AttributeError")
    ELSE IF \E trait \in DOMAIN required_traits.d :
                ~IsNumber(required_traits.d[trait])
                \/ ~IsNumber(DictGet(candidate_traits.d, trait))
    THEN Raise("TypeError")
    ELSE LET distance == math_sqrt(SquaredDistance(DOMAIN required_traits.d,
                                                   required_traits.d, candidate_traits.d))
             max_distance == math_sqrt(5 * SCALE * SCALE)
             similarity == ONE - (distance * SCALE) \div max_distance
         IN  Return(IF similarity < 0 THEN 0 ELSE IF similarity > ONE THEN ONE ELSE similarity)

\* lines 129-143, entered with both values truthy
Similarity(required_traits, candidate_traits) ==
    IF required_traits.t \in {"num", "bool"} THEN Raise("TypeError")
    ELSE IF required_traits.t \in {"list", "str"} THEN Raise("AttributeError")
    ELSE IF candidate_traits.t # "dict" THEN Raise("AttributeError")
    ELSE IF \E trait \in DOMAIN required_traits.d :
                ~IsNumber(required_traits.d[trait])
                \/ ~IsNumber(DictGet(candidate_traits.d, trait))
    THEN Raise("TypeError")
    ELSE LET distance == math_sqrt(SquaredDistance(DOMAIN required_traits.d,
                                                   required_traits.d, candidate_traits.d))
             max_distance == math_sqrt(5 * SCALE * SCALE)
         IN  Return(ONE - (distance * SCALE) \div max_distance)

\* the candidate's trait source: lines 112-124; NoTraits is the `return 0.5` branch
NoTraits == [ok |-> FALSE]

LoadsOrEmpty(s) == LET r == json_loads(s) IN IF r.ok THEN r.v ELSE EmptyDict

\* the two sources tried in the other order
CandidateTraitsCvFirst(candidate_obj) ==
    IF ~Falsy(candidate_obj.personality_traits)
    THEN Return(LoadsOrEmpty(candidate_obj.personality_traits))
    ELSE IF ~Falsy(candidate_obj.test_personality_traits)
    THEN Return(LoadsOrEmpty(candidate_obj.test_personality_traits))
    ELSE NoTraits

\* an unparseable questionnaire column falls through to the CV's column
CandidateTraitsCascading(candidate_obj) ==
    IF ~Falsy(candidate_obj.test_personality_traits)
       /\ json_loads(candidate_obj.test_personality_traits).ok
    THEN Return(json_loads(candidate_obj.test_personality_traits).v)
    ELSE IF ~Falsy(candidate_obj.personality_traits)
    THEN Return(LoadsOrEmpty(candidate_obj.personality_traits))
    ELSE IF ~Falsy(candidate_obj.test_personality_traits) THEN Return(EmptyDict)
    ELSE NoTraits

CandidateTraits(candidate_obj) ==
    IF ~Falsy(candidate_obj.test_personality_traits)
    THEN Return(LoadsOrEmpty(candidate_obj.test_personality_traits))
    ELSE IF ~Falsy(candidate_obj.personality_traits)
    THEN Return(LoadsOrEmpty(candidate_obj.personality_traits))
    ELSE NoTraits

_calculate_personality_score(candidate_obj, job) ==
    IF Falsy(job.required_personality_traits) THEN Return(HALF)
    ELSE LET required_traits == json_loads(job.required_personality_traits)
             candidate_traits == CandidateTraits(candidate_obj)
         IN  IF ~required_traits.ok THEN Return(HALF)
             ELSE IF ~candidate_traits.ok THEN Return(HALF)
             ELSE IF ~Truthy(required_traits.v) \/ ~Truthy(candidate_traits.v) THEN Return(HALF)
             ELSE Similarity(required_traits.v, candidate_traits.v)

----------------------------------------------------------------------------
(* The combiner and rank_candidates *)

\* RankingSystem.__init__
RankingSystem ==
    [skill_weight |-> Tenths(3), experience_weight |-> Tenths(2),
     education_weight |-> Tenths(1), certification_weight |-> Tenths(1),
     personality_weight |-> Tenths(3)]

\* the sum with the education weight copied onto the experience term
WeightedSumCopiedWeight(rs, skill_score, experience_score, education_score, certification_score, personality_score) ==
    skill_score * rs.skill_weight
    + experience_score * rs.education_weight
    + education_score * rs.education_weight
    + certification_score * rs.certification_weight
    + personality_score * rs.personality_weight

\* the weighted sum of five factor scores under the instance's weights
WeightedSum(rs, skill_score, experience_score, education_score, certification_score, personality_score) ==
    skill_score * rs.skill_weight
    + experience_score * rs.experience_weight
    + education_score * rs.education_weight
    + certification_score * rs.certification_weight
    + personality_score * rs.personality_weight

_calculate_candidate_score(rs, candidate_obj, job) ==
    LET skill_score == _calculate_skill_score(candidate_obj, job)
        experience_score == _calculate_experience_score(candidate_obj, job)
        education_score == _calculate_education_score(candidate_obj, job)
        certification_score == _calculate_certification_score(candidate_obj, job)
        personality_score == _calculate_personality_score(candidate_obj, job)
    IN  IF ~personality_score.ok THEN personality_score
        ELSE Return(WeightedSum(rs, skill_score, experience_score, education_score,
                                certification_score, personality_score.v))

Reverse(list) == [i \in 1..Len(list) |-> list[Len(list) + 1 - i]]

\* one step of a stable ascending sort on the score: x goes after every pair
\* whose score is not greater
InsertByScore(sorted, x) ==
    LET p == Cardinality({i \in 1..Len(sorted) : sorted[i][2] <= x[2]})
    IN  SubSeq(sorted, 1, p) \o <<x>> \o SubSeq(sorted, p + 1, Len(sorted))

RECURSIVE StableSortByScore(_)
StableSortByScore(list) ==
    IF list = <<>> THEN <<>>
    ELSE InsertByScore(StableSortByScore(SubSeq(list, 1, Len(list) - 1)), list[Len(list)])

\* a descending sort that leaves out the first reversal: equal scores come out in
\* reverse input order
SortDescendingOnly(list) == Reverse(StableSortByScore(list))

\* list.sort(key=lambda x: x[1], reverse=True): the list is reversed, sorted
\* stably ascending, and reversed again
SortByScoreReverse(list) == Reverse(StableSortByScore(Reverse(list)))

\* the loop with a membership test before the append: a candidate equal to a
\* later one is scored once
RECURSIVE ScoreAllDistinct(_, _, _)
ScoreAllDistinct(rs, list, job) ==
    IF list = <<>> THEN Return(<<>>)
    ELSE LET score == _calculate_candidate_score(rs, Head(list), job)
             rest == ScoreAllDistinct(rs, Tail(list), job)
         IN  IF ~score.ok THEN score
             ELSE IF ~rest.ok THEN rest
             ELSE IF InList(Head(list), Tail(list)) THEN rest
             ELSE Return(<<<<Head(list), score.v>>>> \o rest.v)

\* the list after the loop of lines 23-25, or the first exception out of it
RECURSIVE ScoreAll(_, _, _)
ScoreAll(rs, list, job) ==
    IF list = <<>> THEN Return(<<>>)
    ELSE LET score == _calculate_candidate_score(rs, Head(list), job)
             rest == ScoreAll(rs, Tail(list), job)
         IN  IF ~score.ok THEN score
             ELSE IF ~rest.ok THEN rest
             ELSE Return(<<<<Head(list), score.v>>>> \o rest.v)

rank_candidates(rs, list, job) ==
    LET ranked_candidates == ScoreAll(rs, list, job)
    IN  IF ~ranked_candidates.ok THEN ranked_candidates
        ELSE Return(SortByScoreReverse(ranked_candidates.v))

----------------------------------------------------------------------------
(* Records *)

\* a Candidate row with every nullable column NULL
BlankCandidate(name) ==
    [name |-> name, skills |-> None, experience |-> None, education |-> None,
     certifications |-> None, personality_traits |-> None,
     test_personality_traits |-> None]

\* a Job row with every nullable column NULL
BlankJob ==
    [required_skills |-> None, required_experience |-> None, required_education |-> None,
     required_certifications |-> None, required_personality_traits |-> None]

\* what one call returned
Call(op, r) == [op |-> op, r |-> r]

\* the two tables before any row is added
NoRows == [candidates |-> <<>>, jobs |-> <<>>]

----------------------------------------------------------------------------
(* SpecText: the four text scorers on one candidate and one job, one text    *)
(* column pair filled with every string up to MaxLen over TextAlphabet       *)

TextAlphabet == {"a", "A", ",", " "}

Strings(alphabet, n) == UNION {[1..k -> alphabet] : k \in 0..n}

TextValues == Strings(TextAlphabet, MaxLen) \cup {None}

TextFactors == {"skills", "experience", "education", "certifications"}

RequiredColumn(f) ==
    CASE f = "skills" -> "required_skills"
      [] f = "experience" -> "required_experience"
      [] f = "education" -> "required_education"
      [] f = "certifications" -> "required_certifications"

InitText ==
    /\ self = RankingSystem
    /\ returned = <<>>
    /\ frames = <<>>
    /\ db = NoRows
    /\ \E f \in TextFactors, req \in TextValues, val \in TextValues :
          /\ candidates = <<[BlankCandidate("c1") EXCEPT ![f] = val]>>
          /\ job_profile = [BlankJob EXCEPT ![RequiredColumn(f)] = req]

CalcSkill ==
    /\ returned = <<>>
    /\ returned' = <<Call("skills", Return(_calculate_skill_score(candidates[1], job_profile)))>>
    /\ UNCHANGED <<self, candidates, job_profile, frames, db>>

CalcExperience ==
    /\ returned = <<>>
    /\ returned' =
          <<Call("experience", Return(_calculate_experience_score(candidates[1], job_profile)))>>
    /\ UNCHANGED <<self, candidates, job_profile, frames, db>>

CalcEducation ==
    /\ returned = <<>>
    /\ returned' =
          <<Call("education", Return(_calculate_education_score(candidates[1], job_profile)))>>
    /\ UNCHANGED <<self, candidates, job_profile, frames, db>>

CalcCertification ==
    /\ returned = <<>>
    /\ returned' =
          <<Call("certifications",
                 Return(_calculate_certification_score(candidates[1], job_profile)))>>
    /\ UNCHANGED <<self, candidates, job_profile, frames, db>>

NextText == CalcSkill \/ CalcExperience \/ CalcEducation \/ CalcCertification

SpecText == InitText /\ [][NextText]_vars

----------------------------------------------------------------------------
(* SpecPersonality: the personality scorer on one candidate and one job whose *)
(* trait columns hold serialized trait dicts and strings that are none        *)

TraitValues == {0, 5, 10}

\* the dict of the first n trait names: the first k map to v1, the others to v2
BlockDict(n, k, v1, v2) ==
    [i \in 1..n |-> <<TraitNames[i], IF i <= k THEN v1 ELSE v2>>]

\* every dict with one value throughout, and every dict split between the
\* lowest and the highest value
TraitDicts ==
    {BlockDict(n, n, v, v) : n \in 0..MaxTraits, v \in TraitValues}
    \cup {BlockDict(n, k, 0, 10) : n \in 0..MaxTraits, k \in 0..MaxTraits}
    \cup {BlockDict(n, k, 10, 0) : n \in 0..MaxTraits, k \in 0..MaxTraits}

DictStrings == {json_dumps(d) : d \in TraitDicts}

\* not JSON at all
MalformedStrings ==
    {<<"{">>, <<"{", "openness", ":", "1.0">>, <<"{", "openness", "1.0", "}">>,
     <<"{", "openness", ":", "1.0", ",", "}">>, <<"oops">>}

\* JSON, but no dict of numbers
NonMappingStrings ==
    {<<"[", "1.0", "]">>, <<"[", "]">>, <<"1.0">>, <<"0">>, <<"high">>, <<"null">>,
     <<"true">>, <<"{", "openness", ":", "high", "}">>,
     <<"{", "openness", ":", "null", "}">>,
     <<"{", "openness", ":", "1.0", ",", "extraversion", ":", "[", "]", "}">>}

TraitStrings == DictStrings \cup MalformedStrings \cup NonMappingStrings \cup {None, <<>>}

\* the values of the second candidate column
FewTraitStrings ==
    {None, <<>>, <<"{">>, <<"[", "1.0", "]">>,
     json_dumps(<<<<"openness", 2>>>>), json_dumps(BlockDict(5, 5, 10, 10))}

InitPersonality ==
    /\ self = RankingSystem
    /\ returned = <<>>
    /\ frames = <<>>
    /\ db = NoRows
    /\ \E req \in TraitStrings, test \in TraitStrings, cv \in FewTraitStrings :
          /\ candidates = <<[BlankCandidate("c1") EXCEPT !.test_personality_traits = test,
                                                        !.personality_traits = cv]>>
          /\ job_profile = [BlankJob EXCEPT !.required_personality_traits = req]

CalcPersonality ==
    /\ returned = <<>>
    /\ returned' =
          <<Call("personality", _calculate_personality_score(candidates[1], job_profile))>>
    /\ UNCHANGED <<self, candidates, job_profile, frames, db>>

CalcCandidateScore ==
    /\ returned = <<>>
    /\ returned' =
          <<Call("candidate", _calculate_candidate_score(self, candidates[1], job_profile))>>
    /\ UNCHANGED <<self, candidates, job_profile, frames, db>>

NextPersonality == CalcPersonality \/ CalcCandidateScore

SpecPersonality == InitPersonality /\ [][NextPersonality]_vars

----------------------------------------------------------------------------
(* Spec: rank_candidates on lists drawn from a pool of candidates             *)

BigFive(v) == json_dumps(BlockDict(5, 5, v, v))
SixTraits(v) == json_dumps(BlockDict(6, 6, v, v))

\* matches JobFull on every factor
Ann ==
    [name |-> "ann", skills |-> <<"a", ",", "b">>, experience |-> <<"a", " ", "b">>,
     education |-> <<"a">>, certifications |-> <<"A">>,
     personality_traits |-> BigFive(10), test_personality_traits |-> None]

\* Ann's columns under another name
Bob == [Ann EXCEPT !.name = "bob"]

\* partial matches; questionnaire traits opposite to the CV's
Cy ==
    [name |-> "cy", skills |-> <<"a">>, experience |-> <<"b">>,
     education |-> <<"b">>, certifications |-> <<"b">>,
     personality_traits |-> BigFive(10), test_personality_traits |-> SixTraits(0)]

\* every column NULL
Dee == BlankCandidate("dee")

\* matches nothing
Eve ==
    [name |-> "eve", skills |-> <<"c">>, experience |-> <<"c">>,
     education |-> <<"c">>, certifications |-> <<"c">>,
     personality_traits |-> None, test_personality_traits |-> SixTraits(0)]

\* questionnaire column not JSON
Fay ==
    [name |-> "fay", skills |-> <<"b", ",", " ", "A">>, experience |-> <<>>,
     education |-> <<"a", "a">>, certifications |-> None,
     personality_traits |-> BigFive(10), test_personality_traits |-> <<"{">>]

CandidatePool == {Ann, Bob, Cy, Dee, Eve, Fay}

JobFull ==
    [required_skills |-> <<"A", ",", " ", "b">>, required_experience |-> <<"a", " ", "b">>,
     required_education |-> <<"a">>, required_certifications |-> <<"a">>,
     required_personality_traits |-> BigFive(10)]

JobSix == [JobFull EXCEPT !.required_personality_traits = SixTraits(10)]

JobList == [JobFull EXCEPT !.required_personality_traits = <<"[", "1.0", "]">>]

JobPool == {BlankJob, JobFull, JobSix, JobList}

Lists(pool, n) == UNION {[1..k -> pool] : k \in 0..n}

Init ==
    /\ self = RankingSystem
    /\ candidates \in Lists(CandidatePool, MaxCandidates)
    /\ job_profile \in JobPool
    /\ returned = <<>>
    /\ frames = <<>>
    /\ db = NoRows

\* a call that sorts the caller's list in place before scoring it
RankCandidatesInPlace ==
    /\ Len(returned) < MaxCalls
    /\ returned' =
          Append(returned, Call("rank_candidates", rank_candidates(self, candidates, job_profile)))
    /\ candidates' = LET r == rank_candidates(self, candidates, job_profile)
                      IN  IF r.ok THEN [i \in 1..Len(r.v) |-> r.v[i][1]] ELSE candidates
    /\ UNCHANGED <<self, job_profile, frames, db>>

RankCandidates ==
    /\ Len(returned) < MaxCalls
    /\ returned' =
          Append(returned, Call("rank_candidates", rank_candidates(self, candidates, job_profile)))
    /\ UNCHANGED <<self, candidates, job_profile, frames, db>>

Next == RankCandidates

Spec == Init /\ [][Next]_vars

----------------------------------------------------------------------------
(* Properties of rank_candidates, checked under Spec *)

\* the calls of rank_candidates that returned a list
Rankings == {i \in 1..Len(returned) : returned[i].op = "rank_candidates" /\ returned[i].r.ok}

\* the composite score of c against the job of the state, computed on its own
CompositeOf(c) == _calculate_candidate_score(self, c, job_profile).v

\* the pairs of list whose score is x, in order
WithScore(list, x) ==
    LET keep == {i \in 1..Len(list) : list[i][2] = x}
        nth(k) == CHOOSE i \in keep : Cardinality({j \in keep : j < i}) = k - 1
    IN  [k \in 1..Cardinality(keep) |-> list[nth(k)]]

\* how often x occurs in list
Occurrences(x, list) == Cardinality({i \in 1..Len(list) : list[i] = x})

\* the input list paired with the composite scores, computed on their own
Scored == [k \in 1..Len(candidates) |-> <<candidates[k], CompositeOf(candidates[k])>>]

\* C1: every list rank_candidates returns is in non-increasing order of score,
\* and the candidates that share a score appear in it in the order they have in
\* the input list.
C1_StableDescending ==
    LET scored == Scored IN
    \A i \in Rankings :
        LET out == returned[i].r.v IN
        /\ \A k, l \in 1..Len(out) : k < l => out[k][2] >= out[l][2]
        /\ \A k \in 1..Len(out) :
              WithScore(out, out[k][2]) = WithScore(scored, out[k][2])

\* C1 witness: a ranking of three in which two differently named candidates tie
\* above a third, and the input's first candidate comes out last.
C1_Witness ==
    \E i \in Rankings :
        LET out == returned[i].r.v IN
        /\ Len(out) = 3
        /\ out[1][2] = out[2][2] /\ out[1][1].name # out[2][1].name
        /\ out[2][2] > out[3][2]
        /\ candidates[1] = out[3][1]

\* C2: the list rank_candidates returns has one entry per input candidate, each
\* candidate as often as in the input, each paired with its own composite
\* score; for the empty input it is the empty list.
C2_Permutation ==
    LET scored == Scored IN
    /\ \A i \in Rankings :
          LET out == returned[i].r.v IN
          /\ Len(out) = Len(candidates)
          /\ \A k \in 1..Len(out) : Occurrences(out[k], out) = Occurrences(out[k], scored)
          /\ \A k \in 1..Len(scored) : Occurrences(scored[k], out) = Occurrences(scored[k], scored)
    /\ \A i \in 1..Len(returned) :
          returned[i].op = "rank_candidates" /\ candidates = <<>> => returned[i].r = Return(<<>>)

\* C2 witness: a ranking of a list of three that holds one candidate twice.
C2_Witness ==
    \E i \in Rankings :
        /\ Len(candidates) = 3
        /\ candidates[1] = candidates[3] /\ candidates[1] # candidates[2]
        /\ Len(returned[i].r.v) = 3

\* the five factor scores of c against the job of the state
FactorScores(c) ==
    <<_calculate_skill_score(c, job_profile), _calculate_experience_score(c, job_profile),
      _calculate_education_score(c, job_profile),
      _calculate_certification_score(c, job_profile),
      _calculate_personality_score(c, job_profile).v>>

\* the factor scores of the candidates of the input list
Factors == [k \in 1..Len(candidates) |-> FactorScores(candidates[k])]

\* the place of candidate c in the input list
PlaceOf(c) == CHOOSE k \in 1..Len(candidates) : candidates[k] = c

\* C4: the instance's weights are 0.3, 0.2, 0.1, 0.1, 0.3 in every state and sum
\* to 1; every score rank_candidates returns is 0.3 skill + 0.2 experience +
\* 0.1 education + 0.1 certification + 0.3 personality of its candidate; a
\* candidate whose five factor scores are 0.5 gets 0.5.
C4_WeightedSum ==
    LET factors == Factors IN
    /\ self = [skill_weight |-> Tenths(3), experience_weight |-> Tenths(2),
               education_weight |-> Tenths(1), certification_weight |-> Tenths(1),
               personality_weight |-> Tenths(3)]
    /\ self.skill_weight + self.experience_weight + self.education_weight
          + self.certification_weight + self.personality_weight = ONE
    /\ \A i \in Rankings :
          \A k \in 1..Len(returned[i].r.v) :
              LET f == factors[PlaceOf(returned[i].r.v[k][1])]
                  score == returned[i].r.v[k][2]
              IN  /\ 10 * score = (3 * f[1] + 2 * f[2] + f[3] + f[4] + 3 * f[5]) * SCALE
                  /\ f = <<HALF, HALF, HALF, HALF, HALF>> => score = HALF * SCALE

\* C4 witness: a ranking that holds a candidate with five neutral factor scores
\* and a candidate whose five factor scores are not all the same.
C4_Witness ==
    \E i \in Rankings :
        LET out == returned[i].r.v IN
        /\ \E k \in 1..Len(out) :
              FactorScores(out[k][1]) = <<HALF, HALF, HALF, HALF, HALF>>
        /\ \E k \in 1..Len(out) :
              LET f == FactorScores(out[k][1]) IN f[2] # f[3] /\ f[1] # f[5]

\* C6 as claimed: no call of rank_candidates raises.
C6_NeverRaises ==
    \A i \in 1..Len(returned) : returned[i].op = "rank_candidates" => returned[i].r.ok

----------------------------------------------------------------------------
(* Properties of the text scorers, checked under SpecText *)

\* the calls of the scorer of factor f
CallsOf(f) == {i \in 1..Len(returned) : returned[i].op = f}

\* C5: when the job's required column or the candidate's column of a text
\* factor is NULL or the empty string, that factor's scorer returns 0.5,
\* whatever the other column holds.
C5_NeutralWhenMissing ==
    \A f \in TextFactors :
        \A i \in CallsOf(f) :
            Falsy(job_profile[RequiredColumn(f)]) \/ Falsy(candidates[1][f])
                => returned[i].r = Return(HALF)

\* C5 witness: the certification scorer has returned 0.5 for a job with the
\* empty string as required certifications and a candidate with certifications.
C5_Witness ==
    \E i \in CallsOf("certifications") :
        /\ job_profile.required_certifications = <<>>
        /\ candidates[1].certifications \notin {None, <<>>, <<" ">>}
        /\ Len(candidates[1].certifications) >= 2
        /\ returned[i].r = Return(HALF)

\* a text with its capital letters folded and the blanks at its ends removed
Folded(ch) == IF ch \in {"A", "B"} THEN (("A" :> "a") @@ ("B" :> "b"))[ch] ELSE ch

Normalised(text) ==
    LET solid == {i \in 1..Len(text) : text[i] # " "}
        first == CHOOSE i \in solid : \A j \in solid : i <= j
        last == CHOOSE i \in solid : \A j \in solid : j <= i
    IN  IF solid = {} THEN <<>>
        ELSE [i \in 1..(last - first + 1) |-> Folded(text[first + i - 1])]

\* the entries of a comma-delimited text: entry k lies between comma k - 1 and
\* comma k
Entries(text) ==
    LET commas == {i \in 1..Len(text) : text[i] = ","}
        cut(k) == IF k = 0 THEN 0
                  ELSE IF k = Cardinality(commas) + 1 THEN Len(text) + 1
                  ELSE CHOOSE i \in commas : Cardinality({j \in commas : j < i}) = k - 1
    IN  [k \in 1..(Cardinality(commas) + 1) |->
            Normalised(SubSeq(text, cut(k - 1) + 1, cut(k) - 1))]

Range(list) == {list[i] : i \in 1..Len(list)}

\* |required /\ candidate| / |required| with a set intersection above and the
\* number of required entries below
IntersectionRatio(required, candidate) ==
    (Cardinality(Range(Entries(required)) \cap Range(Entries(candidate))) * SCALE)
        \div Len(Entries(required))

\* (required entries found among the candidate's entries, each occurrence
\* counted) / (number of required entries)
MatchedEntryRatio(required, candidate) ==
    (Cardinality({k \in 1..Len(Entries(required)) :
                     Entries(required)[k] \in Range(Entries(candidate))}) * SCALE)
        \div Len(Entries(required))

\* the comma-list factors and whether both columns of f are filled
ListFactors == {"skills", "certifications"}

BothFilled(f) == ~Falsy(job_profile[RequiredColumn(f)]) /\ ~Falsy(candidates[1][f])

\* C9 as claimed: for filled columns the skill score, and likewise the
\* certification score, is the size of the intersection of the required and
\* the candidate's entries over the number of required entries.
C9_IntersectionRatio ==
    \A f \in ListFactors :
        \A i \in CallsOf(f) :
            BothFilled(f) =>
                returned[i].r = Return(IntersectionRatio(job_profile[RequiredColumn(f)],
                                                         candidates[1][f]))

\* C9 amended: for filled columns the skill score, and likewise the
\* certification score, is the number of required entries, each occurrence
\* counted, that equal an entry of the candidate, over the number of required
\* entries; entries are cut at commas, trimmed and lower-cased.
C9_MatchedEntryRatio ==
    \A f \in ListFactors :
        \A i \in CallsOf(f) :
            BothFilled(f) =>
                returned[i].r = Return(MatchedEntryRatio(job_profile[RequiredColumn(f)],
                                                         candidates[1][f]))

\* C9 witness: the skill scorer has returned 1 for a job that requires one
\* skill twice, in two spellings, and a candidate that has it.
C9_Witness ==
    \E i \in CallsOf("skills") :
        LET required == Entries(job_profile.required_skills) IN
        /\ BothFilled("skills")
        /\ Len(required) = 2 /\ required[1] = required[2] /\ required[1] # <<>>
        /\ job_profile.required_skills[1] # job_profile.required_skills[3]
        /\ required[1] \in Range(Entries(candidates[1].skills))
        /\ returned[i].r = Return(ONE)

\* the words of a text: the first and last index of every maximal run of
\* characters other than the blank
Words(text) ==
    {w \in (1..Len(text)) \X (1..Len(text)) :
        /\ w[1] <= w[2]
        /\ \A i \in w[1]..w[2] : text[i] # " "
        /\ w[1] = 1 \/ text[w[1] - 1] = " "
        /\ w[2] = Len(text) \/ text[w[2] + 1] = " "}

\* word w of `required` stands, case apart, at offset o of `narrative`
StandsAt(required, w, narrative, o) ==
    /\ o + (w[2] - w[1]) <= Len(narrative)
    /\ \A i \in 0..(w[2] - w[1]) : Folded(narrative[o + i]) = Folded(required[w[1] + i])

\* (words of `required` that stand somewhere in `narrative`) / (words of
\* `required`), and 0.5 when it has no word
SubstringRatio(required, narrative) ==
    LET words == Words(required)
        found == {w \in words : \E o \in 1..Len(narrative) : StandsAt(required, w, narrative, o)}
    IN  IF words = {} THEN HALF ELSE (Cardinality(found) * SCALE) \div Cardinality(words)

\* the keyword factors
KeywordFactors == {"experience", "education"}

\* C16: for filled columns the experience score, and likewise the education
\* score, is the number of whitespace-separated words of the lower-cased
\* requirement that occur as a substring of the lower-cased narrative, over
\* the number of such words, and 0.5 when the requirement is blank throughout.
C16_SubstringRatio ==
    \A f \in KeywordFactors :
        \A i \in CallsOf(f) :
            BothFilled(f) =>
                /\ returned[i].r = Return(SubstringRatio(job_profile[RequiredColumn(f)],
                                                         candidates[1][f]))
                /\ Words(job_profile[RequiredColumn(f)]) = {} => returned[i].r = Return(HALF)

\* C16 witness: the experience scorer has returned 1 for a requirement of one
\* word and a narrative that contains it inside a longer word only.
C16_Witness ==
    \E i \in CallsOf("experience") :
        /\ BothFilled("experience")
        /\ Cardinality(Words(job_profile.required_experience)) = 1
        /\ returned[i].r = Return(ONE)
        /\ \A w \in Words(job_profile.required_experience),
              v \in Words(candidates[1].experience) :
                 v[2] - v[1] > w[2] - w[1]

----------------------------------------------------------------------------
(* Properties of the personality scorer, checked under SpecPersonality *)

\* C3 as claimed: the personality score and the composite score of a candidate
\* lie in [0, 1], as do its four text scores.
C3_ScoresInUnitInterval ==
    \A i \in 1..Len(returned) :
        /\ returned[i].op = "personality" /\ returned[i].r.ok
              => returned[i].r.v \in 0..ONE
        /\ returned[i].op = "candidate" /\ returned[i].r.ok
              => /\ returned[i].r.v \in 0..(ONE * SCALE)
                 /\ \A k \in 1..4 : FactorScores(candidates[1])[k] \in 0..ONE

\* a column value that parses to a dict with at least one key
IsFilledDict(s) ==
    /\ ~Falsy(s)
    /\ LET r == json_loads(s) IN r.ok /\ r.v.t = "dict" /\ DOMAIN r.v.d # {}

\* C7: when both trait columns of the candidate parse to dicts with a key, the
\* personality scorer returns what it returns for the candidate with any other
\* such value in personality_traits.
C7_TestTraitsOnly ==
    \A i \in CallsOf("personality") :
        IsFilledDict(candidates[1].test_personality_traits)
        /\ IsFilledDict(candidates[1].personality_traits)
            => \A other \in {s \in FewTraitStrings : IsFilledDict(s)} :
                   _calculate_personality_score(
                       [candidates[1] EXCEPT !.personality_traits = other], job_profile)
                       = returned[i].r

\* C7 witness: the scorer has returned a score for a candidate with both
\* columns filled, and the CV traits alone give another score.
C7_Witness ==
    \E i \in CallsOf("personality") :
        /\ IsFilledDict(candidates[1].test_personality_traits)
        /\ IsFilledDict(candidates[1].personality_traits)
        /\ returned[i].r.ok
        /\ _calculate_personality_score(
               [candidates[1] EXCEPT !.test_personality_traits = None], job_profile)
               # returned[i].r

\* the column the scorer reads: the questionnaire's when it is filled
SelectedColumn ==
    IF ~Falsy(candidates[1].test_personality_traits)
    THEN candidates[1].test_personality_traits
    ELSE candidates[1].personality_traits

\* a parsed dict whose values on the keys in `keys` are floats
NumbersOn(d, keys) == \A k \in keys \cap DOMAIN d : d[k].t = "num"

\* the sum over the required keys of (required - candidate or 0.5) squared,
\* values in tenths
SumOfSquares(required, candidate) ==
    LET term(i) ==
            IF TraitNames[i] \notin DOMAIN required THEN 0
            ELSE LET r == required[TraitNames[i]].n
                     c == IF TraitNames[i] \in DOMAIN candidate
                          THEN candidate[TraitNames[i]].n ELSE 5
                 IN  (r - c) * (r - c)
        sum[i \in 0..Len(TraitNames)] == IF i = 0 THEN 0 ELSE sum[i - 1] + term(i)
    IN  sum[Len(TraitNames)]

\* 1 - sqrt(S) / sqrt(5) for S in hundredths
OneMinusRatio(S) ==
    ONE - (math_sqrt(S * (SCALE \div 10) * (SCALE \div 10)) * SCALE)
              \div math_sqrt(5 * SCALE * SCALE)

\* C10: when the required column and the column the scorer reads parse to
\* dicts of floats with a key, the score is 1 - sqrt(S) / sqrt(5), S the sum
\* over the required keys of the squared differences, the candidate's value
\* being 0.5 where it has none; it is 1 when the candidate equals the
\* requirement on five required traits and 0 when it differs by 1 on five.
C10_Distance ==
    \A i \in CallsOf("personality") :
        IsFilledDict(job_profile.required_personality_traits) /\ IsFilledDict(SelectedColumn)
            => LET required == json_loads(job_profile.required_personality_traits).v.d
                   candidate == json_loads(SelectedColumn).v.d
                   keys == DOMAIN required
               IN  NumbersOn(required, keys) /\ NumbersOn(candidate, keys)
                       => /\ returned[i].r = Return(OneMinusRatio(SumOfSquares(required, candidate)))
                          /\ Cardinality(keys) = 5
                             /\ (\A k \in keys : k \in DOMAIN candidate /\ candidate[k] = required[k])
                                 => returned[i].r = Return(ONE)
                          /\ Cardinality(keys) = 5
                             /\ (\A k \in keys : k \in DOMAIN candidate
                                      /\ candidate[k].n - required[k].n \in {10, -10})
                                 => returned[i].r = Return(0)

\* C10 witness: the scorer has returned a score that is neither 0, 0.5 nor 1
\* for a requirement of three traits and a candidate whose only traits are
\* the CV's, one trait, so that the 0.5 default stands in for the others.
C10_Witness ==
    \E i \in CallsOf("personality") :
        /\ IsFilledDict(job_profile.required_personality_traits)
        /\ Falsy(candidates[1].test_personality_traits)
        /\ IsFilledDict(candidates[1].personality_traits)
        /\ Cardinality(DOMAIN json_loads(job_profile.required_personality_traits).v.d) = 3
        /\ Cardinality(DOMAIN json_loads(candidates[1].personality_traits).v.d) = 1
        /\ returned[i].r.ok /\ returned[i].r.v \notin {0, HALF, ONE}

----------------------------------------------------------------------------
(* SpecThreads: calls of rank_candidates by several threads on the one       *)
(* RankingSystem instance of app.py, interleaved between the statements of   *)
(* the loop.  A frame holds the arguments and the locals of one call.        *)

MaxThreads == 2

Threads == 1..MaxThreads

\* the frame of a thread that has not called
IdleFrame == [pc |-> "idle"]

\* the arguments of the calls: a ranking that returns, one that reorders three
\* candidates, one that raises at its second candidate, and the empty list
ThreadArgs ==
    {<<<<Ann, Eve>>, JobFull>>, <<<<Eve, Cy, Ann>>, JobSix>>, <<<<Dee, Ann>>, JobList>>,
     <<<<>>, BlankJob>>}

\* what the call of thread t returned, its arguments, and the threads that
\* were inside a call of their own at that moment
ThreadCall(t, r) ==
    [op |-> "rank_candidates", r |-> r, thread |-> t,
     candidates |-> frames[t].candidates, job_profile |-> frames[t].job_profile,
     others |-> {u \in Threads \ {t} : frames[u].pc \in {"for", "append"}}]

\* line 21: the call is entered and its list starts empty
Enter(t) ==
    /\ frames[t].pc = "idle"
    /\ \E args \in ThreadArgs :
          frames' = [frames EXCEPT ![t] =
                        [pc |-> "for", candidates |-> args[1], job_profile |-> args[2],
                         ranked_candidates |-> <<>>, i |-> 1, score |-> 0]]
    /\ UNCHANGED <<self, candidates, job_profile, returned, db>>

\* line 24: the score of the next candidate, read off the shared instance; an
\* exception ends the call
Score(t) ==
    /\ frames[t].pc = "for"
    /\ frames[t].i <= Len(frames[t].candidates)
    /\ LET score == _calculate_candidate_score(self, frames[t].candidates[frames[t].i],
                                                frames[t].job_profile)
       IN  IF score.ok
           THEN /\ frames' = [frames EXCEPT ![t].pc = "append", ![t].score = score.v]
                /\ UNCHANGED returned
           ELSE /\ frames' = [frames EXCEPT ![t].pc = "done"]
                /\ returned' = Append(returned, ThreadCall(t, score))
    /\ UNCHANGED <<self, candidates, job_profile, db>>

\* the pair lands in the list of every call in progress, as it does when the
\* list is kept on the instance
AppendPairShared(t) ==
    /\ frames[t].pc = "append"
    /\ frames' =
          [u \in Threads |->
              IF u = t
              THEN [frames[u] EXCEPT !.pc = "for", !.i = @ + 1,
                       !.ranked_candidates =
                           Append(@, <<frames[t].candidates[frames[t].i], frames[t].score>>)]
              ELSE IF frames[u].pc \in {"for", "append"}
              THEN [frames[u] EXCEPT !.ranked_candidates =
                           Append(@, <<frames[t].candidates[frames[t].i], frames[t].score>>)]
              ELSE frames[u]]
    /\ UNCHANGED <<self, candidates, job_profile, returned, db>>

\* line 25: the pair is appended to the list of this call
AppendPair(t) ==
    /\ frames[t].pc = "append"
    /\ frames' =
          [frames EXCEPT ![t].pc = "for", ![t].i = @ + 1,
              ![t].ranked_candidates =
                  Append(@, <<frames[t].candidates[frames[t].i], frames[t].score>>)]
    /\ UNCHANGED <<self, candidates, job_profile, returned, db>>

\* lines 28-30: the loop is over; the list is sorted and returned
SortAndReturn(t) ==
    /\ frames[t].pc = "for"
    /\ frames[t].i > Len(frames[t].candidates)
    /\ frames' = [frames EXCEPT ![t].pc = "done"]
    /\ returned' =
          Append(returned, ThreadCall(t, Return(SortByScoreReverse(frames[t].ranked_candidates))))
    /\ UNCHANGED <<self, candidates, job_profile, db>>

InitThreads ==
    /\ self = RankingSystem
    /\ candidates = <<>>
    /\ job_profile = BlankJob
    /\ returned = <<>>
    /\ frames = [t \in Threads |-> IdleFrame]
    /\ db = NoRows

NextThreads ==
    \E t \in Threads : Enter(t) \/ Score(t) \/ AppendPair(t) \/ SortAndReturn(t)

SpecThreads == InitThreads /\ [][NextThreads]_vars

\* C11: whatever the interleaving, a call of rank_candidates returns, or
\* raises, what it does when it runs alone on its arguments, and the instance
\* the calls share keeps the attributes it was built with.
C11_NoInterference ==
    /\ self = RankingSystem
    /\ \A k \in 1..Len(returned) :
          returned[k].r = rank_candidates(self, returned[k].candidates, returned[k].job_profile)

\* C11 witness: a call has returned a ranking of two or more candidates while
\* another thread was inside a call of its own on other arguments, and that
\* call has returned a ranking of two or more candidates too.
C11_Witness ==
    \E k, m \in 1..Len(returned) :
        /\ k < m
        /\ returned[k].others = {returned[m].thread}
        /\ returned[k].r.ok /\ Len(returned[k].r.v) >= 2
        /\ returned[m].r.ok /\ Len(returned[m].r.v) >= 2
        /\ returned[k].job_profile # returned[m].job_profile

----------------------------------------------------------------------------
(* Further properties of the personality scorer, checked under SpecPersonality *)

\* C12: when the candidate's test_personality_traits is a non-empty string
\* that is not JSON, the personality score is 0.5 whatever personality_traits
\* holds: the scorer does not go on to the CV's traits.
C12_NoCascade ==
    \A i \in CallsOf("personality") :
        ~Falsy(candidates[1].test_personality_traits)
        /\ ~json_loads(candidates[1].test_personality_traits).ok
            => returned[i].r = Return(HALF)

\* C12 witness: the scorer has returned 0.5 for a candidate whose
\* questionnaire column is not JSON and whose CV traits alone score otherwise
\* against the job.
C12_Witness ==
    \E i \in CallsOf("personality") :
        /\ candidates[1].test_personality_traits \in MalformedStrings
        /\ IsFilledDict(candidates[1].personality_traits)
        /\ IsFilledDict(job_profile.required_personality_traits)
        /\ returned[i].r = Return(HALF)
        /\ LET alone == _calculate_personality_score(
                            [candidates[1] EXCEPT !.test_personality_traits = None], job_profile)
           IN  alone.ok /\ alone.v # HALF

\* the values of d on the keys in `keys` are numbers in [0, 1]
InUnitOn(d, keys) == \A k \in keys \cap DOMAIN d : d[k].t = "num" /\ d[k].n \in 0..10

\* C15: when the required column and the column the scorer reads parse to
\* dicts with a key and the trait values are numbers in [0, 1], the
\* personality score is above 0 for one to four required traits, however far
\* the candidate is from the requirement, and within [0, 1] for up to five.
C15_FewTraits ==
    \A i \in CallsOf("personality") :
        IsFilledDict(job_profile.required_personality_traits) /\ IsFilledDict(SelectedColumn)
            => LET required == json_loads(job_profile.required_personality_traits).v.d
                   candidate == json_loads(SelectedColumn).v.d
                   keys == DOMAIN required
               IN  InUnitOn(required, keys) /\ InUnitOn(candidate, keys)
                       => /\ Cardinality(keys) <= 5
                             => returned[i].r.ok /\ returned[i].r.v \in 0..ONE
                          /\ Cardinality(keys) <= 4
                             => returned[i].r.ok /\ returned[i].r.v > 0

\* C15 witness: the scorer has returned a score above 0 for four required
\* traits and a candidate at a distance of 1 from each of them.
C15_Witness ==
    \E i \in CallsOf("personality") :
        /\ IsFilledDict(job_profile.required_personality_traits)
        /\ IsFilledDict(SelectedColumn)
        /\ LET required == json_loads(job_profile.required_personality_traits).v.d
               candidate == json_loads(SelectedColumn).v.d
           IN  /\ Cardinality(DOMAIN required) = 4
               /\ \A k \in DOMAIN required :
                     /\ k \in DOMAIN candidate
                     /\ required[k].t = "num" /\ candidate[k].t = "num"
                     /\ candidate[k].n - required[k].n \in {10, -10}
        /\ returned[i].r.ok /\ returned[i].r.v > 0 /\ returned[i].r.v < HALF

----------------------------------------------------------------------------
(* Further properties of rank_candidates, checked under Spec *)

\* the trait column of candidate c that the scorer reads
TraitColumn(c) ==
    IF ~Falsy(c.test_personality_traits) THEN c.test_personality_traits
    ELSE c.personality_traits

\* the job requires more than five traits, each a number in [0, 1], and
\* candidate c has every one of them at a distance of 1 from the requirement
OpposedOnMoreThanFive(c) ==
    /\ IsFilledDict(job_profile.required_personality_traits)
    /\ IsFilledDict(TraitColumn(c))
    /\ LET required == json_loads(job_profile.required_personality_traits).v.d
           candidate == json_loads(TraitColumn(c)).v.d
       IN  /\ Cardinality(DOMAIN required) > 5
           /\ \A k \in DOMAIN required :
                 /\ required[k].t = "num" /\ required[k].n \in 0..10
                 /\ k \in DOMAIN candidate
                 /\ candidate[k].t = "num" /\ candidate[k].n \in 0..10
                 /\ candidate[k].n - required[k].n \in {10, -10}

\* what the four text scores of c add to its composite score
TextShare(c) ==
    LET f == FactorScores(c)
    IN  self.skill_weight * f[1] + self.experience_weight * f[2]
            + self.education_weight * f[3] + self.certification_weight * f[4]

----------------------------------------------------------------------------
(* SpecWeb: the handlers of app.py over the two tables.  A row's id is its   *)
(* place in its table.  returned holds the response to the latest request;   *)
(* candidates and job_profile hold what that request handed to the engine.   *)

MaxRows == 2
MaxJobs == 1

\* HTTPException(status_code=...)
HTTPException(status_code) == [ok |-> FALSE, exc |-> "HTTPException", status_code |-> status_code]

\* RedirectResponse(url=..., status_code=303)
RedirectResponse(url) == Return([url |-> url, status_code |-> 303])

\* the response to a request: the handler, its path or query parameter, and
\* what it returned or raised
Response(op, param, r) == [op |-> op, param |-> param, r |-> r]

\* filename.endswith('.pdf')
endswith(s, suffix) ==
    Len(s) >= Len(suffix) /\ SubSeq(s, Len(s) - Len(suffix) + 1, Len(s)) = suffix

\* ', '.join(list)
RECURSIVE join(_)
join(list) ==
    IF list = <<>> THEN <<>>
    ELSE IF Len(list) = 1 THEN list[1]
    ELSE list[1] \o <<",", " ">> \o join(Tail(list))

\* the names of uploaded files
Filenames == {<<"c", "v", ".", "p", "d", "f">>, <<"c", "v", ".", "t", "x", "t">>}

\* what cv_parser.parse and personality_analyzer.analyze make of an uploaded
\* CV: the parsed fields, and Big Five scores in [0, 1]
CvData ==
    {[name |-> "ann", skills |-> <<<<"a">>, <<"b">>>>, experience |-> <<"a", " ", "b">>,
      education |-> <<"a">>, certifications |-> <<<<"a">>>>,
      personality_traits |-> BlockDict(5, 5, v, v)] : v \in {2, 10}}

\* the five answers of the questionnaire form
Answers == {[q \in 1..5 |-> "yes"], [q \in 1..5 |-> "no"]}

\* max(0, min(1, x)) in tenths
Clamp(x) == IF x < 0 THEN 0 ELSE IF x > 10 THEN 10 ELSE x

\* PersonalityAnalyzer.analyze_test_answers: 0.5 + 0.2 for yes, 0.5 - 0.1 otherwise
analyze_test_answers(answers) ==
    [q \in 1..5 |-> <<TraitNames[q], Clamp(5 + (IF answers[q] = "yes" THEN 2 ELSE -1))>>]

\* the jobs the form creates: one that requires the Big Five at 1.0 and one
\* whose trait requirement is a JSON list
WebJobs == {JobFull, JobList}

\* POST /upload_cv
upload_cv ==
    \E filename \in Filenames, cv_data \in CvData :
        /\ Len(db.candidates) < MaxRows
        /\ IF ~endswith(filename, <<".", "p", "d", "f">>)
           THEN /\ returned' = <<Response("upload_cv", 0, HTTPException(400))>>
                /\ UNCHANGED db
           ELSE LET db_candidate ==
                        [id |-> Len(db.candidates) + 1, name |-> cv_data.name,
                         skills |-> join(cv_data.skills), experience |-> cv_data.experience,
                         education |-> cv_data.education,
                         certifications |-> join(cv_data.certifications),
                         personality_traits |-> json_dumps(cv_data.personality_traits),
                         test_personality_traits |-> None]
                IN  /\ db' = [db EXCEPT !.candidates = Append(@, db_candidate)]
                    /\ returned' =
                          <<Response("upload_cv", 0,
                                     RedirectResponse(<<"/personality_test", db_candidate.id>>))>>
        /\ candidates' = <<>>
        /\ job_profile' = BlankJob
        /\ UNCHANGED <<self, frames>>

\* the handler without its write to the row
submit_personality_test_uncommitted ==
    \E candidate_id \in 1..(MaxRows + 1) :
        /\ returned' =
              <<Response("submit_personality_test", candidate_id,
                         IF candidate_id \notin 1..Len(db.candidates) THEN HTTPException(404)
                         ELSE RedirectResponse(<<"/candidates", 0>>))>>
        /\ candidates' = <<>>
        /\ job_profile' = BlankJob
        /\ UNCHANGED <<self, frames, db>>

\* POST /personality_test/{candidate_id}
submit_personality_test ==
    \E candidate_id \in 1..(MaxRows + 1), answers \in Answers :
        /\ IF candidate_id \notin 1..Len(db.candidates)
           THEN /\ returned' =
                      <<Response("submit_personality_test", candidate_id, HTTPException(404))>>
                /\ UNCHANGED db
           ELSE LET test_traits == analyze_test_answers(answers)
                IN  /\ db' = [db EXCEPT !.candidates[candidate_id].test_personality_traits =
                                            json_dumps(test_traits)]
                    /\ returned' =
                          <<Response("submit_personality_test", candidate_id,
                                     RedirectResponse(<<"/candidates", 0>>))>>
        /\ candidates' = <<>>
        /\ job_profile' = BlankJob
        /\ UNCHANGED <<self, frames>>

\* POST /job_profile
create_job_profile ==
    \E db_job \in WebJobs :
        /\ Len(db.jobs) < MaxJobs
        /\ db' = [db EXCEPT !.jobs = Append(@, db_job)]
        /\ returned' =
              <<Response("create_job_profile", 0, RedirectResponse(<<"/job_profile", 0>>))>>
        /\ candidates' = <<>>
        /\ job_profile' = BlankJob
        /\ UNCHANGED <<self, frames>>

\* GET /api/rank_candidates/{job_id}.  The loop at line 259 binds the name
\* `candidate`, which makes it a local of the whole function: the read of
\* candidate.Candidate at line 255 raises UnboundLocalError before the engine
\* is called, and lines 256-275 are never reached.
api_rank_candidates ==
    \E job_id \in 1..(MaxJobs + 1) :
        /\ returned' =
              <<Response("api_rank_candidates", job_id,
                         IF job_id \notin 1..Len(db.jobs) THEN HTTPException(404)
                         ELSE Raise("UnboundLocalError"))>>
        /\ candidates' = <<>>
        /\ job_profile' = BlankJob
        /\ UNCHANGED <<self, frames, db>>

\* lines 205-219: the parsed value of a trait column, None when the column is
\* empty or is not JSON
ParsedOrNone(s) ==
    IF Falsy(s) THEN JNull
    ELSE LET r == json_loads(s) IN IF r.ok THEN r.v ELSE JNull

\* lines 221-236: the pair the page shows for one ranked candidate
Processed(pair) ==
    <<[id |-> pair[1].id, name |-> pair[1].name, skills |-> pair[1].skills,
       experience |-> pair[1].experience, education |-> pair[1].education,
       certifications |-> pair[1].certifications,
       personality_traits |-> ParsedOrNone(pair[1].personality_traits),
       test_personality_traits |-> ParsedOrNone(pair[1].test_personality_traits)],
      pair[2]>>

\* lines 190-199: the ranking of every stored candidate against the stored
\* job, or the unranked listing; an absent job_id reads as 0, both being falsy
\* at line 190
RankedCandidates(job_id) ==
    IF job_id = 0
    THEN Return([k \in 1..Len(db.candidates) |-> <<db.candidates[k], HALF * SCALE>>])
    ELSE IF job_id \notin 1..Len(db.jobs) THEN HTTPException(404)
    ELSE rank_candidates(self, db.candidates, db.jobs[job_id])

\* lines 203-246: what the page is rendered from, or the exception on the way
ProcessedCandidates(ranked_candidates) ==
    IF ~ranked_candidates.ok THEN ranked_candidates
    ELSE Return([k \in 1..Len(ranked_candidates.v) |-> Processed(ranked_candidates.v[k])])

\* GET /candidates?job_id=...
candidates_page ==
    \E job_id \in 0..(MaxJobs + 1) :
        /\ returned' =
              <<Response("candidates_page", job_id, ProcessedCandidates(RankedCandidates(job_id)))>>
        /\ candidates' = IF job_id \in 1..Len(db.jobs) THEN db.candidates ELSE <<>>
        /\ job_profile' = IF job_id \in 1..Len(db.jobs) THEN db.jobs[job_id] ELSE BlankJob
        /\ UNCHANGED <<self, frames, db>>

InitWeb ==
    /\ self = RankingSystem
    /\ candidates = <<>>
    /\ job_profile = BlankJob
    /\ returned = <<>>
    /\ frames = <<>>
    /\ db = NoRows

NextWeb ==
    \/ upload_cv
    \/ submit_personality_test
    \/ create_job_profile
    \/ api_rank_candidates
    \/ candidates_page

SpecWeb == InitWeb /\ [][NextWeb]_vars

\* the latest response is that of a ranking endpoint asked for a stored job
RankingOfStoredJob ==
    /\ returned # <<>>
    /\ returned[1].op \in {"api_rank_candidates", "candidates_page"}
    /\ returned[1].param \in 1..Len(db.jobs)

\* C13 as claimed: a ranking endpoint asked for a stored job completes
\* without raising, whatever the stored candidates are.
C13_EndpointsNeverRaise == RankingOfStoredJob => returned[1].r.ok

\* the row has questionnaire traits
Submitted(row) == row.test_personality_traits # None

\* the composite score of a row against the job of the latest request, its
\* personality factor taken from the trait string `traits`
CompositeFrom(row, traits) ==
    TextShare(row)
        + self.personality_weight
            * OneMinusRatio(SumOfSquares(json_loads(job_profile.required_personality_traits).v.d,
                                         json_loads(traits).v.d))

\* every score of a ranking that was returned for a job with required traits
\* comes from the row's questionnaire traits when it has them and from its CV
\* traits when it has none
RankedFromStoredTraits ==
    returned # <<>> /\ returned[1].op = "candidates_page" /\ returned[1].r.ok
    /\ returned[1].param \in 1..Len(db.jobs)
    /\ IsFilledDict(job_profile.required_personality_traits)
        => \A k \in 1..Len(returned[1].r.v) :
               LET row == db.candidates[returned[1].r.v[k][1].id]
               IN  returned[1].r.v[k][2] =
                       CompositeFrom(row, IF Submitted(row) THEN row.test_personality_traits
                                          ELSE row.personality_traits)

\* one request: a submission for a stored candidate writes that row's
\* questionnaire traits and nothing else; one for an unknown id fails with
\* 404 and writes nothing; no request takes a row's questionnaire traits
\* away or touches its CV traits, and a new row has no questionnaire traits
SubmissionStep ==
    /\ returned'[1].op = "submit_personality_test" /\ returned'[1].param \in 1..Len(db.candidates)
          => /\ returned'[1].r.ok
             /\ \E answers \in Answers :
                   db' = [db EXCEPT !.candidates[returned'[1].param].test_personality_traits =
                                        json_dumps(analyze_test_answers(answers))]
    /\ returned'[1].op = "submit_personality_test" /\ returned'[1].param \notin 1..Len(db.candidates)
          => returned'[1].r = HTTPException(404) /\ db' = db
    /\ \A id \in 1..Len(db.candidates) :
          /\ id \in 1..Len(db'.candidates)
          /\ db'.candidates[id].personality_traits = db.candidates[id].personality_traits
          /\ Submitted(db.candidates[id]) => Submitted(db'.candidates[id])
    /\ \A id \in (Len(db.candidates) + 1)..Len(db'.candidates) : ~Submitted(db'.candidates[id])

\* C17: in every sequence of requests, once a submission for a candidate has
\* succeeded its row keeps questionnaire traits, and every ranking returned
\* afterwards for a job with required traits scores it from them and not from
\* its CV traits, while a row without a submission is scored from its CV
\* traits; a submission for an unknown id fails with 404 and changes no row.
C17_QuestionnaireAfterSubmit == []RankedFromStoredTraits /\ [][SubmissionStep]_vars

\* C17 witness: a ranking has been returned that scores one candidate from
\* the questionnaire traits of a submission, which differ from its CV's, and
\* another candidate, without a submission, from its CV traits.
C17_Witness ==
    /\ returned # <<>> /\ returned[1].op = "candidates_page" /\ returned[1].r.ok
    /\ returned[1].param \in 1..Len(db.jobs)
    /\ IsFilledDict(job_profile.required_personality_traits)
    /\ \E k, m \in 1..Len(returned[1].r.v) :
          LET first == db.candidates[returned[1].r.v[k][1].id]
              second == db.candidates[returned[1].r.v[m][1].id]
          IN  /\ Submitted(first) /\ ~Submitted(second)
              /\ returned[1].r.v[k][2] # CompositeFrom(first, first.personality_traits)
              /\ returned[1].r.v[k][2] = CompositeFrom(first, first.test_personality_traits)
              /\ returned[1].r.v[m][2] = CompositeFrom(second, second.personality_traits)

====
